---- MODULE Spec2Model ----
(***************************************************************************)
(* A model of src/user/message.ts (class Message of the Wechaty SDK):      *)
(* message handles, their asynchronous hydration by ready(), the static    *)
(* find/findAll search, the polymorphic say() dispatcher and forward().    *)
(*                                                                         *)
(* The puppet (backend) is the environment: each of its calls either       *)
(* rejects or answers, the choice being nondeterministic at every call.    *)
(* What it knows of a message is a record per message id (store) that      *)
(* does not change during a run.  Every `await` of the source is a point   *)
(* where other tasks may run, so every awaited call is split into the      *)
(* step that issues it and the step that continues after it.               *)
(***************************************************************************)
EXTENDS Integers, Sequences, FiniteSets, TLC

(***************************************************************************)
(* Bounds of the model.                                                    *)
(***************************************************************************)
MaxHandles == 3   \* message handles that can exist at once
MaxCalls   == 3   \* ready() invocations that can be made in one run
MaxLoads   == 1   \* handles the caller loads by hand in the ready() lifecycle
MaxLen     == 2   \* longest id list messageSearch answers with
MaxText    == 5   \* longest text of a message whose mentions are parsed

Handles == 1 .. MaxHandles
Calls   == 1 .. MaxCalls

(***************************************************************************)
(* Identifiers.  None stands for an absent (undefined / falsy) id.         *)
(***************************************************************************)
None       == "none"
MsgIds     == {"m1", "m2", "m3"}
ContactIds == {"c1", "c2"}
RoomIds    == {"r1"}

VARIABLES
  store,        \* store[id]: the puppet's MessagePayload of message id
  hid,          \* hid[h]: the id handle h was constructed with, None if h does not exist
  payload,      \* payload[h]: <<>> when #payload is absent, <<p>> when it holds p
  calls,        \* calls[c]: one invocation of ready(): its handle, position and captured ids
  roomReady,    \* roomReady[r]: the room handle of id r is ready
  contactReady, \* contactReady[k]: the contact handle of id k is ready
  fetchCount,   \* fetchCount[h]: puppet.messagePayload calls issued for handle h
  writeCount,   \* writeCount[h]: assignments made to h's #payload
  resolvedWF,   \* resolvedWF[h]: a ready() on h has resolved while its payload had a sender id
  find,         \* the find()/findAll() invocation
  say,          \* the say() invocation
  fwd,          \* the forward() invocation
  sent,         \* the send calls issued to the puppet, in order
  ext           \* the mentionList(), mentionSelf() or toXxx() invocation

vars == <<store, hid, payload, calls, roomReady, contactReady, fetchCount, writeCount, resolvedWF,
          find, say, fwd, sent, ext>>

\* The variables of the operations built on ready().
opVars == <<store, find, say, fwd, sent, ext>>

(***************************************************************************)
(* MessagePayload.  hasMentionIdList models `'mentionIdList' in payload`.  *)
(***************************************************************************)
MkPayload(from, room, to, type, text, hasMention, mention) ==
  [fromId |-> from, roomId |-> room, toId |-> to, type |-> type, text |-> text,
   hasMentionIdList |-> hasMention, mentionIdList |-> mention]

\* The payloads the backend answers with in the ready() lifecycle: every
\* combination of present and absent sender, room and recipient.
ReadyPayloads ==
  { MkPayload(f, r, t, "Text", <<>>, FALSE, <<>>) :
      f \in {None, "c1"}, r \in {None, "r1"}, t \in {None, "c2"} }

FreeCall == [pc |-> "free", h |-> 0, roomId |-> None, fromId |-> None, toId |-> None]

\* isReady(): !!this.#payload
isReady(h) == payload[h] # <<>>

(***************************************************************************)
(* The synchronous accessors.  Each answers [err, val]; err is "" when the *)
(* accessor returns and the thrown message otherwise.                      *)
(***************************************************************************)
Ok(v)    == [err |-> "", val |-> v]
Throw(e) == [err |-> e, val |-> None]

\* talker() answering null, as the deprecated from() does, where it must throw.
talkerNullWhenUnready(h) ==
  IF payload[h] = <<>> THEN Ok(None)
  ELSE IF payload[h][1].fromId = None THEN Throw("payload.fromId is null?")
  ELSE Ok(payload[h][1].fromId)

talker(h) ==
  IF payload[h] = <<>> THEN Throw("no payload")
  ELSE IF payload[h][1].fromId = None THEN Throw("payload.fromId is null?")
  ELSE Ok(payload[h][1].fromId)

listener(h) ==
  IF payload[h] = <<>> THEN Throw("no payload")
  ELSE Ok(payload[h][1].toId)

room(h) ==
  IF payload[h] = <<>> THEN Throw("no payload")
  ELSE Ok(payload[h][1].roomId)

text(h) ==
  IF payload[h] = <<>> THEN Throw("no payload")
  ELSE Ok(payload[h][1].text)

type(h) ==
  IF payload[h] = <<>> THEN Throw("no payload")
  ELSE Ok(IF payload[h][1].type = None THEN "Unknown" ELSE payload[h][1].type)

date(h) ==
  IF payload[h] = <<>> THEN Throw("no payload")
  ELSE Ok("date")

Accessors(h) == <<talker(h), listener(h), room(h), text(h), type(h), date(h)>>

(***************************************************************************)
(* Message.load(id): a new handle for id, with no payload.                 *)
(***************************************************************************)
FreeHandles == {h \in Handles : hid[h] = None}
NewHandle   == CHOOSE h \in FreeHandles : \A g \in FreeHandles : h <= g

FreeCalls == {c \in Calls : calls[c].pc = "free"}
NewCall   == CHOOSE c \in FreeCalls : \A d \in FreeCalls : c <= d

load(h, id) ==
  /\ hid[h] = None
  /\ hid' = [hid EXCEPT ![h] = id]

Load(id) ==
  /\ Cardinality(Handles \ FreeHandles) < MaxLoads
  /\ FreeHandles # {}
  /\ load(NewHandle, id)
  /\ UNCHANGED <<payload, calls, roomReady, contactReady, fetchCount, writeCount, resolvedWF>>
  /\ UNCHANGED opVars

(***************************************************************************)
(* ready().  The position of a call is the await it is suspended at:       *)
(* "fetch" (puppet.messagePayload), "room", "from", "to" (the ready() of   *)
(* the room, sender and recipient handles), then "resolved" or "rejected". *)
(***************************************************************************)
\* What a call that reaches "resolved" leaves behind.
Resolve(c, h) ==
  resolvedWF' = [resolvedWF EXCEPT ![h] = @ \/ (payload'[h] # <<>> /\ payload'[h][1].fromId # None)]

\* The await a call goes to next, given the ids it captured and those done.
AfterFetch(r, f, t) == IF r # None THEN "room" ELSE IF f # None THEN "from"
                       ELSE IF t # None THEN "to" ELSE "resolved"
AfterRoom(f, t)     == IF f # None THEN "from" ELSE IF t # None THEN "to" ELSE "resolved"
AfterFrom(t)        == IF t # None THEN "to" ELSE "resolved"

\* ready() is called: return at once when ready, else issue the fetch.
ready(c, h) ==
  /\ calls[c].pc = "free"
  /\ IF isReady(h)
       THEN /\ calls' = [calls EXCEPT ![c] = [FreeCall EXCEPT !.pc = "resolved", !.h = h]]
            /\ UNCHANGED <<payload, fetchCount>>
            /\ Resolve(c, h)
       ELSE /\ calls' = [calls EXCEPT ![c] = [FreeCall EXCEPT !.pc = "fetch", !.h = h]]
            /\ fetchCount' = [fetchCount EXCEPT ![h] = @ + 1]
            /\ UNCHANGED <<payload, resolvedWF>>

ReadyCall(c, h) ==
  /\ hid[h] # None
  /\ ready(c, h)
  /\ UNCHANGED <<hid, roomReady, contactReady, writeCount, opVars>>

\* puppet.messagePayload(this.id) answers: the payload is assigned, the
\* three ids are read from it, and the first dependent ready() is issued.
FetchOk(c) ==
  /\ calls[c].pc = "fetch"
  /\ LET h  == calls[c].h
         p  == store[hid[h]]
         nx == AfterFetch(p.roomId, p.fromId, p.toId)
     IN /\ payload' = [payload EXCEPT ![h] = <<p>>]
        /\ writeCount' = [writeCount EXCEPT ![h] = @ + 1]
        /\ calls' = [calls EXCEPT ![c] = [pc |-> nx, h |-> h, roomId |-> p.roomId,
                                          fromId |-> p.fromId, toId |-> p.toId]]
        /\ IF nx = "resolved" THEN Resolve(c, h) ELSE UNCHANGED resolvedWF
  /\ UNCHANGED <<hid, roomReady, contactReady, fetchCount, opVars>>

\* puppet.messagePayload(id) rejects and ready() assigns what it got all
\* the same: the handle counts as ready.
FetchFailAssigns(c) ==
  /\ calls[c].pc = "fetch"
  /\ calls' = [calls EXCEPT ![c].pc = "rejected"]
  /\ payload' = [payload EXCEPT ![calls[c].h] = <<store[hid[calls[c].h]]>>]
  /\ UNCHANGED <<hid, roomReady, contactReady, fetchCount, writeCount, resolvedWF, opVars>>

\* puppet.messagePayload(id) rejects: ready() rejects, nothing is assigned.
FetchFail(c) ==
  /\ calls[c].pc = "fetch"
  /\ calls' = [calls EXCEPT ![c].pc = "rejected"]
  /\ UNCHANGED <<hid, payload, roomReady, contactReady, fetchCount, writeCount, resolvedWF, opVars>>

\* Room.load(roomId).ready() resolves (the room handle is ready from now on)
\* or rejects (only a room that is not ready yet fetches, so only it can fail).
RoomReady(c, ok) ==
  /\ calls[c].pc = "room"
  /\ LET nx == AfterRoom(calls[c].fromId, calls[c].toId)
     IN IF ok
          THEN /\ roomReady' = [roomReady EXCEPT ![calls[c].roomId] = TRUE]
               /\ calls' = [calls EXCEPT ![c].pc = nx]
               /\ UNCHANGED payload
               /\ IF nx = "resolved" THEN Resolve(c, calls[c].h) ELSE UNCHANGED resolvedWF
          ELSE /\ ~roomReady[calls[c].roomId]
               /\ calls' = [calls EXCEPT ![c].pc = "rejected"]
               /\ UNCHANGED <<roomReady, payload, resolvedWF>>
  /\ UNCHANGED <<hid, contactReady, fetchCount, writeCount, opVars>>

\* Contact.load(fromId).ready()
FromReady(c, ok) ==
  /\ calls[c].pc = "from"
  /\ LET nx == AfterFrom(calls[c].toId)
     IN IF ok
          THEN /\ contactReady' = [contactReady EXCEPT ![calls[c].fromId] = TRUE]
               /\ calls' = [calls EXCEPT ![c].pc = nx]
               /\ UNCHANGED payload
               /\ IF nx = "resolved" THEN Resolve(c, calls[c].h) ELSE UNCHANGED resolvedWF
          ELSE /\ ~contactReady[calls[c].fromId]
               /\ calls' = [calls EXCEPT ![c].pc = "rejected"]
               /\ UNCHANGED <<contactReady, payload, resolvedWF>>
  /\ UNCHANGED <<hid, roomReady, fetchCount, writeCount, opVars>>

\* Contact.load(toId).ready()
ToReady(c, ok) ==
  /\ calls[c].pc = "to"
  /\ IF ok
       THEN /\ contactReady' = [contactReady EXCEPT ![calls[c].toId] = TRUE]
            /\ calls' = [calls EXCEPT ![c].pc = "resolved"]
            /\ UNCHANGED payload
            /\ Resolve(c, calls[c].h)
       ELSE /\ ~contactReady[calls[c].toId]
            /\ calls' = [calls EXCEPT ![c].pc = "rejected"]
            /\ UNCHANGED <<contactReady, payload, resolvedWF>>
  /\ UNCHANGED <<hid, roomReady, fetchCount, writeCount, opVars>>

(***************************************************************************)
(* findAll(query) and find(query).                                         *)
(*                                                                         *)
(* find = [pc, viaFind, search, L, list, callOf, caught, invalid, ret,     *)
(*         found]:                                                         *)
(*   pc       "idle", "search" (awaiting puppet.messageSearch), "join"     *)
(*            (awaiting Promise.all), "returned" (findAll has returned     *)
(*            ret), "found" (find has returned found), "raised"            *)
(*   viaFind  findAll was called by find                                   *)
(*   search   how messageSearch ended: "pending", "ok", "rejected"         *)
(*   L        the id list messageSearch answered with                      *)
(*   list     messageList: the handle loaded for each id of L              *)
(*   callOf   the ready() call made on each handle of list                 *)
(*   caught   the positions whose .catch handler has run                   *)
(*   invalid  invalidDict: the ids marked invalid                          *)
(*   found    what find returns: a handle, or 0 for null                   *)
(***************************************************************************)
MinOf(S) == CHOOSE x \in S : \A y \in S : x <= y

\* The n smallest members of S, in ascending order.
RECURSIVE FirstN(_, _)
FirstN(S, n) == IF n = 0 THEN <<>> ELSE <<MinOf(S)>> \o FirstN(S \ {MinOf(S)}, n - 1)

\* The lists messageSearch can answer with: the ids of the messages that
\* match, each once.
RECURSIVE SeqsUpTo(_, _)
SeqsUpTo(S, n) ==
  IF n = 0 THEN {<<>>}
  ELSE LET shorter == SeqsUpTo(S, n - 1)
       IN shorter \cup {Append(q, x) : q \in {r \in shorter : Len(r) = n - 1}, x \in S}

Distinct(q) == \A i, j \in 1 .. Len(q) : i # j => q[i] # q[j]

SearchResults == {q \in SeqsUpTo(MsgIds, MaxLen) : Distinct(q)}

\* find(query) calls findAll(query); findAll(query) calls puppet.messageSearch.
findAll(via) ==
  /\ find.pc = "idle"
  /\ find' = [pc |-> "search", viaFind |-> via, search |-> "pending", L |-> <<>>, list |-> <<>>,
              callOf |-> <<>>, caught |-> {}, invalid |-> {}, ret |-> <<>>, found |-> 0]
  /\ UNCHANGED <<store, hid, payload, calls, roomReady, contactReady, fetchCount, writeCount,
                 resolvedWF, say, fwd, sent, ext>>

\* messageSearch answers L: a handle is loaded for every id, ready() is
\* called on every handle, and findAll awaits them all.
SearchOk(L) ==
  /\ find.pc = "search"
  /\ Cardinality(FreeHandles) >= Len(L)
  /\ Cardinality({c \in Calls : calls[c].pc = "free"}) >= Len(L)
  /\ LET n  == Len(L)
         hs == FirstN(FreeHandles, n)
         cs == FirstN({c \in Calls : calls[c].pc = "free"}, n)
         at(q, x) == CHOOSE i \in 1 .. n : q[i] = x
     IN /\ hid' = [h \in Handles |->
                     IF \E i \in 1 .. n : hs[i] = h THEN L[at(hs, h)] ELSE hid[h]]
        /\ calls' = [c \in Calls |->
                     IF \E i \in 1 .. n : cs[i] = c
                       THEN [FreeCall EXCEPT !.pc = "fetch", !.h = hs[at(cs, c)]]
                       ELSE calls[c]]
        /\ fetchCount' = [h \in Handles |->
                     IF \E i \in 1 .. n : hs[i] = h THEN fetchCount[h] + 1 ELSE fetchCount[h]]
        /\ find' = [find EXCEPT !.pc = "join", !.search = "ok", !.L = L, !.list = hs, !.callOf = cs]
  /\ UNCHANGED <<store, payload, roomReady, contactReady, writeCount, resolvedWF, say, fwd, sent, ext>>

\* messageSearch rejects, findAll lets the rejection through.
SearchFailRaises ==
  /\ find.pc = "search"
  /\ find' = [find EXCEPT !.pc = "raised", !.search = "rejected"]
  /\ UNCHANGED <<store, hid, payload, calls, roomReady, contactReady, fetchCount, writeCount,
                 resolvedWF, say, fwd, sent, ext>>

\* messageSearch rejects: the catch of findAll returns [].
SearchFail ==
  /\ find.pc = "search"
  /\ find' = [find EXCEPT !.pc = "returned", !.search = "rejected", !.ret = <<>>]
  /\ UNCHANGED <<store, hid, payload, calls, roomReady, contactReady, fetchCount, writeCount,
                 resolvedWF, say, fwd, sent, ext>>

\* The .catch of one message.ready() that marks nothing invalid.
ReadyCatchForgets(i) ==
  /\ find.pc = "join"
  /\ i \in 1 .. Len(find.list)
  /\ i \notin find.caught
  /\ calls[find.callOf[i]].pc = "rejected"
  /\ find' = [find EXCEPT !.caught = @ \cup {i}]
  /\ UNCHANGED <<store, hid, payload, calls, roomReady, contactReady, fetchCount, writeCount,
                 resolvedWF, say, fwd, sent, ext>>

\* The .catch of one message.ready(): invalidDict[message.id] = true.
ReadyCatch(i) ==
  /\ find.pc = "join"
  /\ i \in 1 .. Len(find.list)
  /\ i \notin find.caught
  /\ calls[find.callOf[i]].pc = "rejected"
  /\ find' = [find EXCEPT !.caught = @ \cup {i}, !.invalid = @ \cup {hid[find.list[i]]}]
  /\ UNCHANGED <<store, hid, payload, calls, roomReady, contactReady, fetchCount, writeCount,
                 resolvedWF, say, fwd, sent, ext>>

\* Promise.all as it settles without the per-message catch: when every
\* ready() has resolved, or as soon as one has rejected.
AllResolvedOrOneRejected ==
  \/ \A i \in 1 .. Len(find.list) : calls[find.callOf[i]].pc = "resolved"
  \/ \E i \in 1 .. Len(find.list) : calls[find.callOf[i]].pc = "rejected" /\ i \in find.caught

\* Every ready() has resolved, or has rejected and been caught.
AllSettled ==
  \A i \in 1 .. Len(find.list) :
    \/ calls[find.callOf[i]].pc = "resolved"
    \/ calls[find.callOf[i]].pc = "rejected" /\ i \in find.caught

\* Promise.all resolves: findAll returns the handles whose id is not invalid.
Join ==
  /\ find.pc = "join"
  /\ AllSettled
  /\ LET valid(h) == hid[h] \notin find.invalid
     IN find' = [find EXCEPT !.pc = "returned", !.ret = SelectSeq(find.list, valid)]
  /\ UNCHANGED <<store, hid, payload, calls, roomReady, contactReady, fetchCount, writeCount,
                 resolvedWF, say, fwd, sent, ext>>

\* find continues after `await this.findAll(query)`: null for an empty
\* list, else its first element.
FindReturn ==
  /\ find.pc = "returned"
  /\ find.viaFind
  /\ find' = [find EXCEPT !.pc = "found",
                          !.found = IF Len(find.ret) < 1 THEN 0 ELSE find.ret[1]]
  /\ UNCHANGED <<store, hid, payload, calls, roomReady, contactReady, fetchCount, writeCount,
                 resolvedWF, say, fwd, sent, ext>>

(***************************************************************************)
(* Mention detection: mentionList() and mentionSelf().                     *)
(*                                                                         *)
(* A text is a sequence of one-character strings.  Sep stands for the      *)
(* characters AT_SEPARATOR_REGEX matches.  A room answers memberAll(name)  *)
(* with its members of that name, in the order of MemberOrder.             *)
(***************************************************************************)
currentUserId == "c1"
Sep           == " "
MemberOrder   == <<"c1", "c2">>
MemberName    == [k \in ContactIds |-> IF k = "c1" THEN <<"a">> ELSE <<"b">>]

includes(t, ch) == \E i \in 1 .. Len(t) : t[i] = ch
indexOf(t, ch)  == CHOOSE i \in 1 .. Len(t) : t[i] = ch /\ \A j \in 1 .. i - 1 : t[j] # ch

\* String.prototype.split on a one-character separator: the pieces between
\* the separators, empty pieces included.
RECURSIVE split(_, _)
split(t, ch) ==
  IF ~includes(t, ch) THEN <<t>>
  ELSE <<SubSeq(t, 1, indexOf(t, ch) - 1)>> \o split(SubSeq(t, indexOf(t, ch) + 1, Len(t)), ch)

RECURSIVE reverse(_)
reverse(q) == IF q = <<>> THEN <<>> ELSE reverse(Tail(q)) \o <<Head(q)>>

RECURSIVE flatten(_)
flatten(qq) == IF qq = <<>> THEN <<>> ELSE Head(qq) \o flatten(Tail(qq))

\* A line terminator, which `.` of a regular expression does not match.
LineBreak == "\n"

\* multipleAt(str): 'hello@a@b@c' gives 'c', 'b@c', 'a@b@c'.
\* str.replace(/^.*?@/, '@') drops what precedes the first '@' when the
\* expression matches, that is when no line terminator precedes that '@';
\* otherwise it leaves str as it is.
multipleAt(str) ==
  LET first       == indexOf(str, "@")
      matches     == \A j \in 1 .. first - 1 : str[j] # LineBreak
      stripped    == IF matches THEN SubSeq(str, first, Len(str)) ELSE str
      nonEmpty(x) == x # <<>>
      tokens      == reverse(SelectSeq(split(stripped, "@"), nonEmpty))
      name[k \in 0 .. Len(tokens)] ==
        IF k = 0 THEN <<>> ELSE tokens[k] \o <<"@">> \o name[k - 1]
  IN [k \in 1 .. Len(tokens) |-> SubSeq(name[k], 1, Len(name[k]) - 1)]

\* The names the text of a message mentions.
mentionNameList(t) ==
  LET hasAt(x)    == includes(x, "@")
      nonEmpty(x) == x # <<>>
      fragments   == SelectSeq(split(t, Sep), hasAt)
  IN SelectSeq(flatten([k \in 1 .. Len(fragments) |-> multipleAt(fragments[k])]), nonEmpty)

\* room.memberAll(name)
memberAll(name) ==
  LET named(k) == MemberName[k] = name
  IN SelectSeq(MemberOrder, named)

\* mentionList() that does not look at the room of the message.
mentionListNoRoomCheck(h) ==
  LET p == payload[h][1]
  IN IF type(h).val # "Text" THEN <<>>
     ELSE IF p.hasMentionIdList THEN p.mentionIdList
     ELSE LET names == mentionNameList(text(h).val)
          IN flatten([k \in 1 .. Len(names) |-> memberAll(names[k])])

\* The ids of the contacts mentionList() resolves with.
mentionList(h) ==
  LET p == payload[h][1]
  IN IF type(h).val # "Text" \/ room(h).val = None THEN <<>>
     ELSE IF p.hasMentionIdList THEN p.mentionIdList
     ELSE LET names == mentionNameList(text(h).val)
          IN flatten([k \in 1 .. Len(names) |-> memberAll(names[k])])

\* mentionList() awaits the puppet: the ready() of a mentioned contact that
\* is not ready yet, or the member search of a mentioned name.
mentionListAwaitsPuppet(h) ==
  LET p == payload[h][1]
  IN /\ type(h).val = "Text"
     /\ room(h).val # None
     /\ IF p.hasMentionIdList
          THEN \E i \in 1 .. Len(p.mentionIdList) : ~contactReady[p.mentionIdList[i]]
          ELSE mentionNameList(text(h).val) # <<>>

\* mentionSelf() answering true for a mention of anyone.
mentionSelfAnyone(h) == mentionList(h) # <<>>

\* mentionSelf(), of a mention list that resolved.
mentionSelf(h) == \E i \in 1 .. Len(mentionList(h)) : mentionList(h)[i] = currentUserId

(***************************************************************************)
(* mentionList() and mentionSelf() called by the user.                     *)
(*                                                                         *)
(* ext = [pc, name, h, fetches, names, list, self, answer, val, err]: name  *)
(* is the                                                                  *)
(* method called on handle h; pc is "idle", "await" (awaiting the puppet), *)
(* "listed" (mentionSelf has its mention list), "contact" (toContact       *)
(* awaits contact.ready()), "resolved" or "rejected"; fetches are the      *)
(* puppet calls made, names the mentionNameList, list the contact ids      *)
(* mentionList resolved with, self what mentionSelf resolved with, val     *)
(* <<class, value>> an extractor resolved with, answer <<v>> when the      *)
(* puppet answered an extractor's fetch with v, err the rejection.         *)
(***************************************************************************)
IdleExt == [pc |-> "idle", name |-> "none", h |-> 0, fetches |-> <<>>, names |-> <<>>,
            list |-> <<>>, self |-> FALSE, answer |-> <<>>, val |-> <<>>, err |-> ""]

\* mentionList() is entered, by the user or by mentionSelf(): it reads the
\* room and the type, answers [] for a message that is not a text of a
\* room, and otherwise awaits the contacts or the members mentioned.
MentionCall(h, name) ==
  /\ ext.pc = "idle"
  /\ hid[h] # None
  /\ LET entered == [IdleExt EXCEPT !.name = name, !.h = h]
         listed  == IF name = "mentionList" THEN "resolved" ELSE "listed"
     IN IF room(h).err # ""
          THEN ext' = [entered EXCEPT !.pc = "rejected", !.err = room(h).err]
          ELSE IF type(h).val # "Text" \/ room(h).val = None
            THEN ext' = [entered EXCEPT !.pc = listed]
            ELSE ext' = [entered EXCEPT !.pc = "await",
                           !.names = IF payload[h][1].hasMentionIdList THEN <<>>
                                     ELSE mentionNameList(text(h).val)]
  /\ UNCHANGED <<store, hid, payload, calls, roomReady, contactReady, fetchCount, writeCount,
                 resolvedWF, find, say, fwd, sent>>

\* The Promise.all of mentionList() has settled: resolved with the contacts,
\* the contacts of a structured list being ready then, or rejected.
MentionListSettled(ok) ==
  /\ ext.pc = "await"
  /\ ext.name \in {"mentionList", "mentionSelf"}
  /\ LET h == ext.h
         p == payload[h][1]
     IN IF ok
          THEN /\ contactReady' = [k \in ContactIds |->
                    contactReady[k]
                      \/ (p.hasMentionIdList
                            /\ \E i \in 1 .. Len(p.mentionIdList) : p.mentionIdList[i] = k)]
               /\ ext' = [ext EXCEPT !.list = mentionList(h),
                             !.pc = IF ext.name = "mentionList" THEN "resolved" ELSE "listed"]
          ELSE /\ mentionListAwaitsPuppet(h)
               /\ ext' = [ext EXCEPT !.pc = "rejected", !.err = "mention"]
               /\ UNCHANGED contactReady
  /\ UNCHANGED <<store, hid, payload, calls, roomReady, fetchCount, writeCount, resolvedWF,
                 find, say, fwd, sent>>

\* mentionSelf() has its mention list and answers.
MentionSelfReturn ==
  /\ ext.pc = "listed"
  /\ ext' = [ext EXCEPT !.pc = "resolved", !.self = mentionSelf(ext.h)]
  /\ UNCHANGED <<store, hid, payload, calls, roomReady, contactReady, fetchCount, writeCount,
                 resolvedWF, find, say, fwd, sent>>

(***************************************************************************)
(* The extractors toFileBox(), toImage(), toContact(), toUrlLink(),        *)
(* toMiniProgram() and toLocation().                                       *)
(***************************************************************************)
Extractors == {"toFileBox", "toImage", "toContact", "toUrlLink", "toMiniProgram", "toLocation"}

\* The type check of every extractor, passing whatever the type.
acceptsEverything(name, ty) == TRUE

\* The type check of each extractor.
accepts(name, ty) ==
  CASE name = "toFileBox"     -> ty # "Text"
    [] name = "toImage"       -> ty = "Image"
    [] name = "toContact"     -> ty = "Contact"
    [] name = "toUrlLink"     -> ty = "Url"
    [] name = "toMiniProgram" -> ty = "MiniProgram"
    [] name = "toLocation"    -> ty = "Location"

\* The error each extractor throws for a type it refuses.
mismatch(name) ==
  CASE name = "toFileBox"     -> "text message no file"
    [] name = "toImage"       -> "not a image type message"
    [] name = "toContact"     -> "message not a ShareCard"
    [] name = "toUrlLink"     -> "message not a Url Link"
    [] name = "toMiniProgram" -> "message not a MiniProgram"
    [] name = "toLocation"    -> "message not a Location"

\* Extractors fetching each other's payloads.
fetchOfSwapped(name) ==
  CASE name = "toFileBox"     -> "messageFile"
    [] name = "toContact"     -> "messageContact"
    [] name = "toUrlLink"     -> "messageMiniProgram"
    [] name = "toMiniProgram" -> "messageLocation"
    [] name = "toLocation"    -> "messageUrl"

\* The puppet call of each extractor that makes one.
fetchOf(name) ==
  CASE name = "toFileBox"     -> "messageFile"
    [] name = "toContact"     -> "messageContact"
    [] name = "toUrlLink"     -> "messageUrl"
    [] name = "toMiniProgram" -> "messageMiniProgram"
    [] name = "toLocation"    -> "messageLocation"

\* The class of the value each extractor resolves with.
classOf(name) ==
  CASE name = "toFileBox"     -> "FileBox"
    [] name = "toImage"       -> "Image"
    [] name = "toContact"     -> "Contact"
    [] name = "toUrlLink"     -> "UrlLink"
    [] name = "toMiniProgram" -> "MiniProgram"
    [] name = "toLocation"    -> "Location"

Fetch(name, id) == [op |-> name, id |-> id]

\* What the puppet answers an extractor's fetch with.
Values == {"v1", "v2"}
Answers(name) == IF name = "toContact" THEN ContactIds \cup {None} ELSE Values

\* An extractor is entered on handle h: it checks the type, and then makes
\* its puppet call; toImage makes none and wraps the id of the message.
ExtractCall(h, name) ==
  /\ ext.pc = "idle"
  /\ hid[h] # None
  /\ LET entered == [IdleExt EXCEPT !.name = name, !.h = h]
     IN IF type(h).err # ""
          THEN ext' = [entered EXCEPT !.pc = "rejected", !.err = type(h).err]
          ELSE IF ~accepts(name, type(h).val)
            THEN ext' = [entered EXCEPT !.pc = "rejected", !.err = mismatch(name)]
            ELSE IF name = "toImage"
              THEN ext' = [entered EXCEPT !.pc = "resolved", !.val = <<classOf(name), hid[h]>>]
              ELSE ext' = [entered EXCEPT !.pc = "await",
                                          !.fetches = <<Fetch(fetchOf(name), hid[h])>>]
  /\ UNCHANGED <<store, hid, payload, calls, roomReady, contactReady, fetchCount, writeCount,
                 resolvedWF, find, say, fwd, sent>>

\* The puppet answers the fetch with v.  toContact throws for an empty id
\* and otherwise loads the contact and awaits its ready(); the others
\* resolve with the value.
ExtractAnswered(v) ==
  /\ ext.pc = "await"
  /\ ext.name \in Extractors
  /\ v \in Answers(ext.name)
  /\ IF ext.name = "toContact"
       THEN IF v = None
              THEN ext' = [ext EXCEPT !.pc = "rejected", !.answer = <<v>>,
                                      !.err = "can not get Contact id by message"]
              ELSE ext' = [ext EXCEPT !.pc = "contact", !.answer = <<v>>,
                             !.fetches = IF contactReady[v] THEN @
                                         ELSE Append(@, Fetch("contactPayload", v))]
       ELSE ext' = [ext EXCEPT !.pc = "resolved", !.answer = <<v>>,
                               !.val = <<classOf(ext.name), v>>]
  /\ UNCHANGED <<store, hid, payload, calls, roomReady, contactReady, fetchCount, writeCount,
                 resolvedWF, find, say, fwd, sent>>

\* The puppet rejects the fetch: so does the extractor.
ExtractRejected ==
  /\ ext.pc = "await"
  /\ ext.name \in Extractors
  /\ ext' = [ext EXCEPT !.pc = "rejected", !.err = "backend"]
  /\ UNCHANGED <<store, hid, payload, calls, roomReady, contactReady, fetchCount, writeCount,
                 resolvedWF, find, say, fwd, sent>>

\* `await contact.ready()` of toContact has settled.
ContactReadied(ok) ==
  /\ ext.pc = "contact"
  /\ LET k == ext.answer[1]
     IN IF ok
          THEN /\ contactReady' = [contactReady EXCEPT ![k] = TRUE]
               /\ ext' = [ext EXCEPT !.pc = "resolved", !.val = <<classOf(ext.name), k>>]
          ELSE /\ ~contactReady[k]
               /\ ext' = [ext EXCEPT !.pc = "rejected", !.err = "ready"]
               /\ UNCHANGED contactReady
  /\ UNCHANGED <<store, hid, payload, calls, roomReady, fetchCount, writeCount, resolvedWF,
                 find, say, fwd, sent>>

(***************************************************************************)
(* conversation(): the room when the message has one, else the talker.     *)
(***************************************************************************)
conversation(h) ==
  IF room(h).err # "" THEN room(h)
  ELSE IF room(h).val # None THEN room(h)
  ELSE talker(h)

(***************************************************************************)
(* forward(to) and say(sayableMsg).                                        *)
(*                                                                         *)
(* A sayable is [kind, data, num, m]: kind is "message" (m the handle),    *)
(* "number" (num), "text" (data the text), "contact" (data its id),        *)
(* "file", "url", "mini", "location" (data the payload) or "other".        *)
(* A send call is [op, target, data, mentionIds].                          *)
(* say and fwd are [pc, ...]: pc is "idle", "mention" (say awaits          *)
(* mentionSelf), "send" (awaits the puppet's send), "readying" (awaits     *)
(* the ready() of the new message), "forward" (say has returned the        *)
(* promise of forward), "resolved" or "rejected".  result is the handle    *)
(* resolved with, 0 for no value; err is "" or the rejection; answer is     *)
(* how the puppet's send ended: "pending", "id", "void" or "rejected".     *)
(***************************************************************************)
IdleSay == [pc |-> "idle", h |-> 0, arg |-> [kind |-> "other", data |-> <<>>, num |-> 0, m |-> 0],
            outText |-> <<>>, talkerId |-> None, convId |-> None, answer |-> "pending",
            msgId |-> None, newh |-> 0, call |-> 0, result |-> 0, err |-> ""]
IdleFwd == [pc |-> "idle", src |-> 0, to |-> None, bySay |-> FALSE, answer |-> "pending",
            msgId |-> None, newh |-> 0, call |-> 0, result |-> 0, err |-> ""]

SendCall(op, target, data, mentionIds) ==
  [op |-> op, target |-> target, data |-> data, mentionIds |-> mentionIds]

\* String(num), of a natural number.
Digits == <<"0", "1", "2", "3", "4", "5", "6", "7", "8", "9">>
RECURSIVE String(_)
String(n) == IF n < 10 THEN <<Digits[n + 1]>> ELSE String(n \div 10) \o <<Digits[(n % 10) + 1]>>

\* forward(to) on handle m is entered: puppet.messageForward(to.id, this.id).
forward(m, to, bySay) ==
  /\ fwd.pc = "idle"
  /\ fwd' = [IdleFwd EXCEPT !.pc = "send", !.src = m, !.to = to, !.bySay = bySay]
  /\ sent' = Append(sent, SendCall("messageForward", to, <<hid[m]>>, <<>>))

UserForward(m, to) ==
  /\ say.pc = "idle"
  /\ hid[m] # None
  /\ forward(m, to, FALSE)
  /\ UNCHANGED <<store, hid, payload, calls, roomReady, contactReady, fetchCount, writeCount,
                 resolvedWF, find, ext, say>>

\* `const msg = Message.load(msgId); await msg.ready()`: the new handle and
\* the call that readies it.
LoadAndReady(nh, c, id) ==
  /\ load(nh, id)
  /\ ready(c, nh)

\* messageForward answers id (None: no id): the new message is loaded and
\* readied, or forward resolves with no value.
ForwardSendOk(id) ==
  /\ fwd.pc = "send"
  /\ IF id # None
       THEN /\ FreeHandles # {} /\ FreeCalls # {}
            /\ LoadAndReady(NewHandle, NewCall, id)
            /\ fwd' = [fwd EXCEPT !.pc = "readying", !.answer = "id", !.msgId = id,
                                  !.newh = NewHandle, !.call = NewCall]
       ELSE /\ fwd' = [fwd EXCEPT !.pc = "resolved", !.answer = "void", !.result = 0]
            /\ UNCHANGED <<hid, calls, payload, fetchCount, resolvedWF>>
  /\ UNCHANGED <<store, roomReady, contactReady, writeCount, find, ext, say, sent>>

\* messageForward rejects and forward swallows it: it resolves with no value.
ForwardSendFailSwallowed ==
  /\ fwd.pc = "send"
  /\ fwd' = [fwd EXCEPT !.pc = "resolved", !.answer = "rejected", !.result = 0]
  /\ UNCHANGED <<store, hid, payload, calls, roomReady, contactReady, fetchCount, writeCount,
                 resolvedWF, find, ext, say, sent>>

\* messageForward rejects: forward logs and throws the error again.
ForwardSendFail ==
  /\ fwd.pc = "send"
  /\ fwd' = [fwd EXCEPT !.pc = "rejected", !.answer = "rejected", !.err = "send"]
  /\ UNCHANGED <<store, hid, payload, calls, roomReady, contactReady, fetchCount, writeCount,
                 resolvedWF, find, ext, say, sent>>

\* `await msg.ready()` of forward has settled.
ForwardReadied ==
  /\ fwd.pc = "readying"
  /\ calls[fwd.call].pc \in {"resolved", "rejected"}
  /\ fwd' = IF calls[fwd.call].pc = "resolved"
              THEN [fwd EXCEPT !.pc = "resolved", !.result = fwd.newh]
              ELSE [fwd EXCEPT !.pc = "rejected", !.err = "ready"]
  /\ UNCHANGED <<store, hid, payload, calls, roomReady, contactReady, fetchCount, writeCount,
                 resolvedWF, find, ext, say, sent>>

\* say() answering in private: the talker's id whatever the room.
sayConversationIdTalker(roomId, talkerId) == talkerId

\* The conversation say() replies in: the room's id when the message has a
\* room, else the talker's.
sayConversationId(roomId, talkerId) == IF roomId # None THEN roomId ELSE talkerId

\* say() sending a url link as a mini program and a mini program as a url link.
SendOpSwapped(kind) ==
  CASE kind = "text"     -> "messageSendText"
    [] kind = "number"   -> "messageSendText"
    [] kind = "contact"  -> "messageSendContact"
    [] kind = "file"     -> "messageSendFile"
    [] kind = "url"      -> "messageSendMiniProgram"
    [] kind = "mini"     -> "messageSendUrl"
    [] kind = "location" -> "messageSendLocation"

\* The puppet call say() makes for each kind of sayable it sends itself.
SendOp(kind) ==
  CASE kind = "text"     -> "messageSendText"
    [] kind = "number"   -> "messageSendText"
    [] kind = "contact"  -> "messageSendContact"
    [] kind = "file"     -> "messageSendFile"
    [] kind = "url"      -> "messageSendUrl"
    [] kind = "mini"     -> "messageSendMiniProgram"
    [] kind = "location" -> "messageSendLocation"

\* say(a) on handle h is entered and runs to its first await: the talker and
\* the room are read, the conversation is chosen, and the sayable is
\* dispatched on its kind.
SayCall(h, a) ==
  /\ say.pc = "idle"
  /\ fwd.pc = "idle"
  /\ hid[h] # None
  /\ IF talker(h).err # ""
       THEN /\ say' = [IdleSay EXCEPT !.pc = "rejected", !.h = h, !.arg = a, !.err = talker(h).err]
            /\ UNCHANGED <<fwd, sent>>
       ELSE LET talkerId == talker(h).val
                roomId   == room(h).val
                convId   == sayConversationId(roomId, talkerId)
                entered  == [IdleSay EXCEPT !.h = h, !.arg = a, !.talkerId = talkerId,
                                            !.convId = convId]
            IN CASE a.kind = "message" ->
                      /\ hid[a.m] # None
                      /\ forward(a.m, convId, TRUE)
                      /\ say' = [entered EXCEPT !.pc = "forward"]
                 [] a.kind = "number" ->
                      /\ say' = [entered EXCEPT !.pc = "mention", !.outText = String(a.num)]
                      /\ UNCHANGED <<fwd, sent>>
                 [] a.kind = "text" ->
                      /\ say' = [entered EXCEPT !.pc = "mention", !.outText = a.data]
                      /\ UNCHANGED <<fwd, sent>>
                 [] a.kind \in {"contact", "file", "url", "mini"} ->
                      /\ say' = [entered EXCEPT !.pc = "send"]
                      /\ sent' = Append(sent, SendCall(SendOp(a.kind), convId, a.data, <<>>))
                      /\ UNCHANGED fwd
                 [] a.kind = "location" ->
                      /\ say' = [entered EXCEPT !.pc = "send"]
                      /\ sent' = Append(sent, SendCall(SendOp(a.kind), hid[h], a.data, <<>>))
                      /\ UNCHANGED fwd
                 [] OTHER ->
                      /\ say' = [entered EXCEPT !.pc = "rejected", !.err = "unknown msg"]
                      /\ UNCHANGED <<fwd, sent>>
  /\ UNCHANGED <<store, hid, payload, calls, roomReady, contactReady, fetchCount, writeCount,
                 resolvedWF, find, ext>>

\* `await this.mentionSelf()` has settled.  Resolved: the contacts of a
\* structured mention list are ready, and the text is sent, with the
\* talker's id as mention id when the message mentions the current user.
\* Rejected: say rejects before any send.
SayMention(ok) ==
  /\ say.pc = "mention"
  /\ LET h == say.h
         p == payload[h][1]
         structured == type(h).val = "Text" /\ room(h).val # None /\ p.hasMentionIdList
     IN IF ok
          THEN /\ contactReady' = [k \in ContactIds |->
                    contactReady[k]
                      \/ (structured /\ \E i \in 1 .. Len(p.mentionIdList) : p.mentionIdList[i] = k)]
               /\ sent' = Append(sent, SendCall(SendOp(say.arg.kind), say.convId, say.outText,
                                                IF mentionSelf(h) THEN <<say.talkerId>> ELSE <<>>))
               /\ say' = [say EXCEPT !.pc = "send"]
          ELSE /\ mentionListAwaitsPuppet(h)
               /\ say' = [say EXCEPT !.pc = "rejected", !.err = "mention"]
               /\ UNCHANGED <<contactReady, sent>>
  /\ UNCHANGED <<store, hid, payload, calls, roomReady, fetchCount, writeCount, resolvedWF,
                 find, ext, fwd>>

\* The send resolves, and say resolves with no value whatever the answer.
SaySendOkNoHandle(id) ==
  /\ say.pc = "send"
  /\ say' = [say EXCEPT !.pc = "resolved", !.answer = IF id # None THEN "id" ELSE "void",
                        !.msgId = id, !.result = 0]
  /\ UNCHANGED <<store, hid, calls, payload, fetchCount, resolvedWF, roomReady, contactReady,
                 writeCount, find, ext, fwd, sent>>

\* The send resolves with id (None: no id): the new message is loaded and
\* readied, or say resolves with no value.
SaySendOk(id) ==
  /\ say.pc = "send"
  /\ IF id # None
       THEN /\ FreeHandles # {} /\ FreeCalls # {}
            /\ LoadAndReady(NewHandle, NewCall, id)
            /\ say' = [say EXCEPT !.pc = "readying", !.answer = "id", !.msgId = id,
                                  !.newh = NewHandle, !.call = NewCall]
       ELSE /\ say' = [say EXCEPT !.pc = "resolved", !.answer = "void", !.result = 0]
            /\ UNCHANGED <<hid, calls, payload, fetchCount, resolvedWF>>
  /\ UNCHANGED <<store, roomReady, contactReady, writeCount, find, ext, fwd, sent>>

\* The send rejects: say rejects with the error.
SaySendFail ==
  /\ say.pc = "send"
  /\ say' = [say EXCEPT !.pc = "rejected", !.answer = "rejected", !.err = "send"]
  /\ UNCHANGED <<store, hid, payload, calls, roomReady, contactReady, fetchCount, writeCount,
                 resolvedWF, find, ext, fwd, sent>>

\* `await msg.ready()` of say has settled.
SayReadied ==
  /\ say.pc = "readying"
  /\ calls[say.call].pc \in {"resolved", "rejected"}
  /\ say' = IF calls[say.call].pc = "resolved"
              THEN [say EXCEPT !.pc = "resolved", !.result = say.newh]
              ELSE [say EXCEPT !.pc = "rejected", !.err = "ready"]
  /\ UNCHANGED <<store, hid, payload, calls, roomReady, contactReady, fetchCount, writeCount,
                 resolvedWF, find, ext, fwd, sent>>

\* The promise of forward that say returned has settled: so has say.
SayForwardSettled ==
  /\ say.pc = "forward"
  /\ fwd.pc \in {"resolved", "rejected"}
  /\ say' = [say EXCEPT !.pc = fwd.pc, !.answer = fwd.answer, !.msgId = fwd.msgId,
                        !.result = fwd.result, !.err = fwd.err]
  /\ UNCHANGED <<store, hid, payload, calls, roomReady, contactReady, fetchCount, writeCount,
                 resolvedWF, find, ext, fwd, sent>>

(***************************************************************************)
(* The ready() lifecycle: the caller loads handles and calls ready() on    *)
(* them at any moment, also while earlier calls are in flight.             *)
(***************************************************************************)
IdleFind == [pc |-> "idle", viaFind |-> FALSE, search |-> "pending", L |-> <<>>, list |-> <<>>,
             callOf |-> <<>>, caught |-> {}, invalid |-> {}, ret |-> <<>>, found |-> 0]

InitCommon ==
  /\ hid = [h \in Handles |-> None]
  /\ payload = [h \in Handles |-> <<>>]
  /\ calls = [c \in Calls |-> FreeCall]
  /\ roomReady = [r \in RoomIds |-> FALSE]
  /\ contactReady = [k \in ContactIds |-> FALSE]
  /\ fetchCount = [h \in Handles |-> 0]
  /\ writeCount = [h \in Handles |-> 0]
  /\ resolvedWF = [h \in Handles |-> FALSE]
  /\ find = IdleFind
  /\ say = IdleSay
  /\ fwd = IdleFwd
  /\ sent = <<>>
  /\ ext = IdleExt

\* The puppet's record of m1 is any of ReadyPayloads; the records of the
\* other messages have a sender, a room and a recipient.
Init ==
  /\ store \in { [id \in MsgIds |->
                    IF id = "m1" THEN p
                    ELSE MkPayload("c1", "r1", "c2", "Text", <<>>, FALSE, <<>>)] :
                  p \in ReadyPayloads }
  /\ InitCommon

UserLoad == \E id \in MsgIds : Load(id)

UserReady == \E h \in Handles : FreeCalls # {} /\ ReadyCall(NewCall, h)

PayloadFetched == \E c \in Calls : FetchOk(c)

PayloadFetchRejected == \E c \in Calls : FetchFail(c)

RoomSettled == \E c \in Calls, ok \in BOOLEAN : RoomReady(c, ok)

FromSettled == \E c \in Calls, ok \in BOOLEAN : FromReady(c, ok)

ToSettled == \E c \in Calls, ok \in BOOLEAN : ToReady(c, ok)

Next ==
  \/ UserLoad
  \/ UserReady
  \/ PayloadFetched
  \/ PayloadFetchRejected
  \/ RoomSettled
  \/ FromSettled
  \/ ToSettled

Spec == Init /\ [][Next]_vars

(***************************************************************************)
(* The search: one find() or findAll() over a backend holding any records. *)
(***************************************************************************)
FindPayloads ==
  { MkPayload("c1", "r1", None, "Text", <<>>, FALSE, <<>>),
    MkPayload("c2", None, None, "Text", <<>>, FALSE, <<>>) }

InitFind ==
  /\ store \in [MsgIds -> FindPayloads]
  /\ InitCommon

FindCalled == \E via \in BOOLEAN : findAll(via)

SearchAnswered == \E L \in SearchResults : SearchOk(L)

ReadyRejectionCaught == \E i \in 1 .. MaxLen : ReadyCatch(i)

NextFind ==
  \/ FindCalled
  \/ SearchAnswered
  \/ SearchFail
  \/ ReadyRejectionCaught
  \/ Join
  \/ FindReturn
  \/ PayloadFetched
  \/ PayloadFetchRejected
  \/ RoomSettled
  \/ FromSettled

SpecFind == InitFind /\ [][NextFind]_vars

(***************************************************************************)
(* say and forward: one say() or one forward() on messages that exist.     *)
(* Handle 1 is a ready message of id m1, as ready() left it; handle 2 is   *)
(* a message of id m2; the messages the puppet creates get id m3.          *)
(***************************************************************************)
Hi       == <<"h", "i">>
AtSelf   == <<"@", "a">>
AtOther  == <<"h", "@", "b", " ", "x">>

Mentions == { <<TRUE, <<"c1">>, Hi>>, <<TRUE, <<"c2">>, Hi>>, <<TRUE, <<>>, AtSelf>>,
              <<FALSE, <<>>, AtSelf>>, <<FALSE, <<>>, AtOther>>, <<FALSE, <<>>, Hi>> }

SayPayloads ==
  { MkPayload(f, r, None, t, m[3], m[1], m[2]) :
      f \in {None, "c1", "c2"}, r \in {None, "r1"}, t \in {"Text", "Image"}, m \in Mentions }

NewPayloads ==
  { MkPayload("c1", "r1", None, "Text", Hi, FALSE, <<>>),
    MkPayload("c1", None, "c2", "Text", Hi, FALSE, <<>>) }

OtherPayload == MkPayload("c2", None, "c1", "Text", Hi, FALSE, <<>>)

Sayable(kind, data, num, m) == [kind |-> kind, data |-> data, num |-> num, m |-> m]

Sayables ==
  { Sayable("message", <<>>, 0, 2), Sayable("number", <<>>, 7, 0), Sayable("number", <<>>, 42, 0),
    Sayable("text", Hi, 0, 0), Sayable("text", AtSelf, 0, 0), Sayable("contact", <<"c2">>, 0, 0),
    Sayable("file", <<"file">>, 0, 0), Sayable("url", <<"url">>, 0, 0),
    Sayable("mini", <<"mini">>, 0, 0), Sayable("location", <<"loc">>, 0, 0),
    Sayable("other", <<>>, 0, 0) }

InitSay ==
  /\ store \in { [id \in MsgIds |-> IF id = "m1" THEN p ELSE IF id = "m2" THEN OtherPayload ELSE q] :
                  p \in SayPayloads, q \in NewPayloads }
  /\ hid = [h \in Handles |-> IF h = 1 THEN "m1" ELSE IF h = 2 THEN "m2" ELSE None]
  /\ payload = [h \in Handles |-> IF h = 1 THEN <<store["m1"]>> ELSE <<>>]
  /\ calls = [c \in Calls |-> FreeCall]
  /\ roomReady = [r \in RoomIds |-> store["m1"].roomId = r]
  /\ contactReady = [k \in ContactIds |-> store["m1"].fromId = k]
  /\ fetchCount = [h \in Handles |-> IF h = 1 THEN 1 ELSE 0]
  /\ writeCount = [h \in Handles |-> IF h = 1 THEN 1 ELSE 0]
  /\ resolvedWF = [h \in Handles |-> h = 1 /\ store["m1"].fromId # None]
  /\ find = IdleFind
  /\ say = IdleSay
  /\ fwd = IdleFwd
  /\ sent = <<>>
  /\ ext = IdleExt

SayCalled == \E h \in Handles, a \in Sayables : isReady(h) /\ SayCall(h, a)

ForwardCalled == \E m \in Handles, to \in ContactIds \cup RoomIds : UserForward(m, to)

MentionSelfSettled == \E ok \in BOOLEAN : SayMention(ok)

SaySendAnswered == \E id \in {"m3", None} : SaySendOk(id)

ForwardSendAnswered == \E id \in {"m3", None} : ForwardSendOk(id)

NextSay ==
  \/ SayCalled
  \/ ForwardCalled
  \/ MentionSelfSettled
  \/ SaySendAnswered
  \/ SaySendFail
  \/ SayReadied
  \/ SayForwardSettled
  \/ ForwardSendAnswered
  \/ ForwardSendFail
  \/ ForwardReadied
  \/ PayloadFetched
  \/ PayloadFetchRejected
  \/ RoomSettled
  \/ FromSettled
  \/ ToSettled

SpecSay == InitSay /\ [][NextSay]_vars

(***************************************************************************)
(* Mentions: one mentionList() or mentionSelf() on a message.  Handle 1 is *)
(* a ready message of id m1, as ready() left it; handle 2 is a message of  *)
(* id m2 that is not ready.                                                *)
(***************************************************************************)
Alphabet == {"@", "a", "b", Sep, LineBreak}
Texts    == SeqsUpTo(Alphabet, MaxText)

MentionPayloads ==
  { MkPayload("c2", "r1", None, "Text", t, FALSE, <<>>) : t \in Texts }
    \cup { MkPayload("c2", r, None, ty, t, FALSE, <<>>) :
             r \in {None, "r1"}, ty \in {"Text", "Image"}, t \in {Hi, AtSelf, AtOther} }
    \cup { MkPayload("c2", r, None, ty, Hi, TRUE, l) :
             r \in {None, "r1"}, ty \in {"Text", "Image"}, l \in SeqsUpTo(ContactIds, 2) }

InitMention ==
  /\ store \in { [id \in MsgIds |-> IF id = "m1" THEN p ELSE OtherPayload] : p \in MentionPayloads }
  /\ hid = [h \in Handles |-> IF h = 1 THEN "m1" ELSE IF h = 2 THEN "m2" ELSE None]
  /\ payload = [h \in Handles |-> IF h = 1 THEN <<store["m1"]>> ELSE <<>>]
  /\ calls = [c \in Calls |-> FreeCall]
  /\ roomReady = [r \in RoomIds |-> store["m1"].roomId = r]
  /\ contactReady = [k \in ContactIds |-> store["m1"].fromId = k]
  /\ fetchCount = [h \in Handles |-> IF h = 1 THEN 1 ELSE 0]
  /\ writeCount = [h \in Handles |-> IF h = 1 THEN 1 ELSE 0]
  /\ resolvedWF = [h \in Handles |-> h = 1]
  /\ find = IdleFind
  /\ say = IdleSay
  /\ fwd = IdleFwd
  /\ sent = <<>>
  /\ ext = IdleExt

MentionCalled ==
  \E h \in Handles, name \in {"mentionList", "mentionSelf"} : MentionCall(h, name)

MentionListAnswered == \E ok \in BOOLEAN : MentionListSettled(ok)

NextMention ==
  \/ MentionCalled
  \/ MentionListAnswered
  \/ MentionSelfReturn

SpecMention == InitMention /\ [][NextMention]_vars

(***************************************************************************)
(* Extraction: one toXxx() on a message of any type.  Handle 1 is a ready  *)
(* message of id m1, handle 2 a message of id m2 that is not ready.        *)
(***************************************************************************)
MessageTypes ==
  {None, "Unknown", "Attachment", "Audio", "Contact", "Emoticon", "Image", "Text", "Video",
   "Url", "MiniProgram", "Location", "Recalled"}

ExtractPayloads ==
  { MkPayload(f, None, "c1", ty, Hi, FALSE, <<>>) : f \in {"c1", "c2"}, ty \in MessageTypes }

InitExtract ==
  /\ store \in { [id \in MsgIds |-> IF id = "m1" THEN p ELSE OtherPayload] : p \in ExtractPayloads }
  /\ hid = [h \in Handles |-> IF h = 1 THEN "m1" ELSE IF h = 2 THEN "m2" ELSE None]
  /\ payload = [h \in Handles |-> IF h = 1 THEN <<store["m1"]>> ELSE <<>>]
  /\ calls = [c \in Calls |-> FreeCall]
  /\ roomReady = [r \in RoomIds |-> FALSE]
  /\ contactReady = [k \in ContactIds |-> store["m1"].fromId = k]
  /\ fetchCount = [h \in Handles |-> IF h = 1 THEN 1 ELSE 0]
  /\ writeCount = [h \in Handles |-> IF h = 1 THEN 1 ELSE 0]
  /\ resolvedWF = [h \in Handles |-> h = 1]
  /\ find = IdleFind
  /\ say = IdleSay
  /\ fwd = IdleFwd
  /\ sent = <<>>
  /\ ext = IdleExt

ExtractCalled == \E h \in Handles, name \in Extractors : ExtractCall(h, name)

ExtractFetchAnswered == \E v \in Values \cup ContactIds \cup {None} : ExtractAnswered(v)

ContactSettled == \E ok \in BOOLEAN : ContactReadied(ok)

NextExtract ==
  \/ ExtractCalled
  \/ ExtractFetchAnswered
  \/ ExtractRejected
  \/ ContactSettled

SpecExtract == InitExtract /\ [][NextExtract]_vars

(***************************************************************************)
(* Claims about the ready() lifecycle (specification Spec).                *)
(***************************************************************************)
CallsOn(h) == {c \in Calls : calls[c].pc # "free" /\ calls[c].h = h}

\* C1: while a handle has no payload each of talker(), listener(), room(),
\* text(), type() and date() throws "no payload"; once a ready() on it has
\* resolved with a payload that has a sender id, none of the six throws in
\* any later state.
C1_AccessorsFollowReadiness ==
  \A h \in Handles : hid[h] # None =>
    /\ payload[h] = <<>> => \A i \in 1 .. 6 : Accessors(h)[i].err = "no payload"
    /\ resolvedWF[h] => \A i \in 1 .. 6 : Accessors(h)[i].err = ""

\* Two ready() calls raced on a handle, both assigned its payload, and the
\* accessors answer.
C1_Witness ==
  \E h \in Handles :
    /\ resolvedWF[h]
    /\ writeCount[h] = 2
    /\ \A i \in 1 .. 6 : Accessors(h)[i].err = ""

\* C2: ready() called twice or more on one handle, none of the calls
\* rejected, in any interleaving: exactly one puppet.messagePayload fetch
\* has been issued for the handle.
C2_SingleFetch ==
  \A h \in Handles :
    (Cardinality(CallsOn(h)) >= 2 /\ \A c \in CallsOn(h) : calls[c].pc # "rejected")
      => fetchCount[h] = 1

\* C3: the payload of a handle is assigned at most once, under any
\* interleaving of ready() calls on it.
C3_PayloadWrittenOnce ==
  \A h \in Handles : writeCount[h] <= 1

\* The handles a payload refers to are ready.
DepsReady(h) ==
  LET p == payload[h][1]
  IN /\ p.roomId # None => roomReady[p.roomId]
     /\ p.fromId # None => contactReady[p.fromId]
     /\ p.toId # None => contactReady[p.toId]

\* C4: at every step in which a ready() call resolves, the room, sender and
\* recipient handles its handle's payload refers to are ready.
C4_DepsReadyWhenResolved ==
  [][\A c \in Calls :
       (calls[c].pc # "resolved" /\ calls'[c].pc = "resolved")
         => \A h \in Handles : calls'[c].h = h => DepsReady(h)']_vars

(***************************************************************************)
(* Claims about find and findAll (specification SpecFind).                 *)
(***************************************************************************)
FindAllReturned == find.pc \in {"returned", "found"}

\* The handles of messageList whose ready() resolved, in messageList's order.
ReadiedHandles ==
  LET readied(h) == \E i \in 1 .. Len(find.list) :
                      find.list[i] = h /\ calls[find.callOf[i]].pc = "resolved"
  IN SelectSeq(find.list, readied)

C6_FindFailSafe ==
  /\ find.pc # "raised"
  /\ (FindAllReturned /\ (find.search = "rejected" \/ find.L = <<>>)) => find.ret = <<>>
  /\ find.pc = "found" =>
       /\ find.ret = <<>> => find.found = 0
       /\ find.ret # <<>> => find.found = Head(find.ret)

\* messageSearch rejected and find returned null.
C6_Witness ==
  /\ find.pc = "found"
  /\ find.search = "rejected"
  /\ find.found = 0

(***************************************************************************)
(* Claims about say (specification SpecSay).                               *)
(***************************************************************************)
SaidMessage == say.pc # "idle" /\ say.arg.kind = "message"
Settled(pc) == pc \in {"resolved", "rejected"}

\* say(m) on h did what m.forward(h.conversation()) does: the one send call
\* is messageForward(id of the conversation, id of m), made by forward on m,
\* and say ends as that forward ends; when conversation() throws, say
\* rejects with what it throws and sends nothing.
SayIsForwardToConversation ==
  LET conv == conversation(say.h)
  IN IF conv.err = ""
       THEN /\ fwd.pc # "idle" /\ fwd.bySay /\ fwd.src = say.arg.m /\ fwd.to = conv.val
            /\ sent = <<SendCall("messageForward", conv.val, <<hid[say.arg.m]>>, <<>>)>>
            /\ Settled(fwd.pc) /\ say.pc = "forward" => ENABLED SayForwardSettled
            /\ Settled(say.pc) => /\ say.pc = fwd.pc
                                  /\ say.result = fwd.result
                                  /\ say.err = fwd.err
       ELSE say.pc = "rejected" /\ say.err = conv.err /\ sent = <<>> /\ fwd.pc = "idle"

\* C7 (as stated): for every ready message h and message m, h.say(m) behaves
\* as m.forward(h.conversation()).
C7_SayMessageIsForward ==
  SaidMessage => SayIsForwardToConversation

\* C7 (amended): for every ready message h whose payload has a sender id, and
\* every message m, h.say(m) behaves as m.forward(h.conversation()).
C7_SayMessageIsForwardGivenSender ==
  (SaidMessage /\ payload[say.h][1].fromId # None) => SayIsForwardToConversation

\* say(m) on a room message has resolved with the forwarded message.
C7_Witness ==
  /\ SaidMessage
  /\ say.pc = "resolved"
  /\ say.result # 0
  /\ payload[say.h][1].roomId = "r1"
  /\ payload[say.h][1].fromId = "c2"

\* The puppet call documented for each kind of sayable.
DocumentedOp ==
  [text |-> "messageSendText", number |-> "messageSendText", contact |-> "messageSendContact",
   file |-> "messageSendFile", url |-> "messageSendUrl", mini |-> "messageSendMiniProgram",
   location |-> "messageSendLocation"]

SaySendsByKind ==
  LET kind == say.arg.kind
      p    == payload[say.h][1]
      conv == IF p.roomId # None THEN p.roomId ELSE p.fromId
  IN IF kind = "other"
       THEN say.pc = "rejected" /\ say.err = "unknown msg" /\ sent = <<>>
       ELSE /\ Len(sent) <= 1
            /\ say.pc \in {"send", "readying", "resolved"} => Len(sent) = 1
            /\ \A i \in 1 .. Len(sent) :
                 /\ sent[i].op = DocumentedOp[kind]
                 /\ sent[i].target = IF kind = "location" THEN hid[say.h] ELSE conv

\* C8 (as stated): say() makes the puppet call of the sayable's kind, with the
\* conversation id as target, the message's own id for a location; any other
\* sayable fails with the unrecognized-payload error and no send.
C8_SayDispatch ==
  (say.pc # "idle" /\ say.arg.kind # "message") => SaySendsByKind

\* C8 (amended): the same, for a message whose payload has a sender id.
C8_SayDispatchGivenSender ==
  (say.pc # "idle" /\ say.arg.kind # "message" /\ payload[say.h][1].fromId # None)
    => SaySendsByKind

\* A location has been sent to the message's own id, not to its room.
C8_Witness ==
  /\ say.arg.kind = "location"
  /\ payload[say.h][1].roomId = "r1"
  /\ Len(sent) = 1
  /\ sent[1].target = "m1"

\* The outgoing text itself mentions the current user by name.
OutgoingMentionsSelf(t) ==
  \E i \in 1 .. Len(mentionNameList(t)) :
    \E j \in 1 .. Len(memberAll(mentionNameList(t)[i])) :
      memberAll(mentionNameList(t)[i])[j] = currentUserId

\* The text say() sends for its sayable.
OutgoingText == IF say.arg.kind = "number" THEN String(say.arg.num) ELSE say.arg.data

\* C9 (as stated): say() of a text or a number passes the talker's id as the
\* only mention id exactly when the outgoing text mentions the current user
\* and the message has a room, and no mention id otherwise.
C9_MentionByOutgoingText ==
  \A i \in 1 .. Len(sent) :
    sent[i].op = "messageSendText" =>
      sent[i].mentionIds =
        IF payload[say.h][1].roomId # None /\ OutgoingMentionsSelf(sent[i].data)
          THEN <<payload[say.h][1].fromId>> ELSE <<>>

\* The message itself is a text in a room that mentions the current user.
ThisMentionsSelf(h) ==
  LET p == payload[h][1]
  IN /\ p.type = "Text"
     /\ p.roomId # None
     /\ \E i \in 1 .. Len(mentionList(h)) : mentionList(h)[i] = currentUserId

\* C9 (amended): say() of a text or a number sends that text, and passes the
\* talker's id as the only mention id exactly when the message say() is
\* called on (not the outgoing text) mentions the current user: a text
\* message in a room whose mentionList() holds the current user.  Otherwise
\* it passes no mention id.
C9_MentionByThisMessage ==
  \A i \in 1 .. Len(sent) :
    sent[i].op = "messageSendText" =>
      /\ say.arg.kind \in {"text", "number"}
      /\ sent[i].data = OutgoingText
      /\ sent[i].mentionIds =
           IF ThisMentionsSelf(say.h) THEN <<payload[say.h][1].fromId>> ELSE <<>>

\* A text that mentions nobody was sent with the talker as mention id.
C9_Witness ==
  /\ Len(sent) = 1
  /\ sent[1].op = "messageSendText"
  /\ sent[1].data = Hi
  /\ sent[1].mentionIds = <<"c2">>

SaidOwnSend == say.pc # "idle" /\ say.arg.kind \notin {"message", "other"}

\* No message handle was loaded and no ready() made besides those of Init.
NothingLoaded ==
  /\ \A h \in Handles : h > 2 => hid[h] = None
  /\ \A c \in Calls : calls[c].pc = "free"

\* C10 (as stated): when the send answers an id, say() resolves with a ready
\* handle of that id; when it answers no id, say() resolves with no value and
\* no handle is loaded or readied; when it rejects, say() rejects with it.
C10_SayOutcome ==
  (SaidOwnSend /\ Settled(say.pc)) =>
    /\ say.answer = "id" =>
         /\ say.pc = "resolved"
         /\ say.result # 0 /\ hid[say.result] = say.msgId /\ isReady(say.result)
    /\ say.answer = "void" => say.pc = "resolved" /\ say.result = 0 /\ NothingLoaded
    /\ say.answer = "rejected" => say.pc = "rejected" /\ say.err = "send"

\* C10 (amended): when the send answers an id and the ready() of the handle
\* loaded for it resolves, say() resolves with that handle, ready and of that
\* id; when that ready() rejects, say() rejects with its error; when the send
\* answers no id, say() resolves with no value and no handle is loaded or
\* readied; when the send rejects, say() rejects with that error.
C10_SayOutcomeIfReadied ==
  (SaidOwnSend /\ Settled(say.pc)) =>
    /\ say.answer = "id" => say.call \in Calls /\ Settled(calls[say.call].pc)
    /\ (say.answer = "id" /\ calls[say.call].pc = "resolved") =>
         /\ say.pc = "resolved"
         /\ say.result # 0 /\ hid[say.result] = say.msgId /\ isReady(say.result)
    /\ (say.answer = "id" /\ calls[say.call].pc = "rejected") =>
         say.pc = "rejected" /\ say.err = "ready"
    /\ say.answer = "void" => say.pc = "resolved" /\ say.result = 0 /\ NothingLoaded
    /\ say.answer = "rejected" => say.pc = "rejected" /\ say.err = "send"

\* say() of a file has resolved with the ready handle of the id answered.
C10_Witness ==
  /\ say.arg.kind = "file"
  /\ say.pc = "resolved"
  /\ say.answer = "id"
  /\ say.result = 3
  /\ hid[3] = "m3"
  /\ isReady(3)

(***************************************************************************)
(* forward(to) called by the user.                                         *)
(***************************************************************************)
Forwarded == fwd.pc # "idle" /\ ~fwd.bySay

\* forward made one puppet call, messageForward(to.id, this.id).
ForwardSentOnce ==
  /\ Len(sent) = 1
  /\ sent[1] = SendCall("messageForward", fwd.to, <<hid[fwd.src]>>, <<>>)

\* C11 (as stated): forward(to) calls messageForward once with (to.id, the
\* message's id); when the call rejects forward rejects with that error;
\* when it answers an id forward resolves with a ready handle of that id;
\* when it answers no id forward resolves with no value.
C11_ForwardOutcome ==
  Forwarded =>
    /\ ForwardSentOnce
    /\ Settled(fwd.pc) =>
         /\ fwd.answer = "rejected" => fwd.pc = "rejected" /\ fwd.err = "send"
         /\ fwd.answer = "id" =>
              /\ fwd.pc = "resolved"
              /\ fwd.result # 0 /\ hid[fwd.result] = fwd.msgId /\ isReady(fwd.result)
         /\ fwd.answer = "void" => fwd.pc = "resolved" /\ fwd.result = 0

\* C11 (amended): as C11, but an answered id gives a ready handle of that id
\* only when the ready() of the handle loaded for it resolves; when that
\* ready() rejects, forward rejects with its error.
C11_ForwardOutcomeIfReadied ==
  Forwarded =>
    /\ ForwardSentOnce
    /\ Settled(fwd.pc) =>
         /\ fwd.answer # "pending"
         /\ fwd.answer = "rejected" => fwd.pc = "rejected" /\ fwd.err = "send"
         /\ fwd.answer = "id" => fwd.call \in Calls /\ Settled(calls[fwd.call].pc)
         /\ (fwd.answer = "id" /\ calls[fwd.call].pc = "resolved") =>
              /\ fwd.pc = "resolved"
              /\ fwd.result # 0 /\ hid[fwd.result] = fwd.msgId /\ isReady(fwd.result)
         /\ (fwd.answer = "id" /\ calls[fwd.call].pc = "rejected") =>
              fwd.pc = "rejected" /\ fwd.err = "ready"
         /\ fwd.answer = "void" => fwd.pc = "resolved" /\ fwd.result = 0

\* forward to the room has resolved with the ready handle of the id answered.
C11_Witness ==
  /\ Forwarded
  /\ fwd.to = "r1"
  /\ fwd.pc = "resolved"
  /\ fwd.answer = "id"
  /\ fwd.result = 3
  /\ hid[3] = "m3"
  /\ isReady(3)

(***************************************************************************)
(* Claims about mentions (specification SpecMention).                      *)
(***************************************************************************)
MentionAsked == ext.name \in {"mentionList", "mentionSelf"}

\* The current user is among the contacts of the list q.
HoldsCurrentUser(q) == \E i \in 1 .. Len(q) : q[i] = currentUserId

\* C12: for a ready message, mentionSelf() answers true exactly when the
\* list its mentionList() resolved with holds the current user; for a
\* message with no room, and for a message that is not a text, mentionList()
\* resolves with the empty list and mentionSelf() with false.
C12_MentionSelfIffListed ==
  (MentionAsked /\ isReady(ext.h)) =>
    /\ (ext.name = "mentionSelf" /\ ext.pc = "resolved") =>
         (ext.self <=> HoldsCurrentUser(ext.list))
    /\ (payload[ext.h][1].roomId = None \/ payload[ext.h][1].type # "Text") =>
         /\ ext.pc \in {"listed", "resolved"}
         /\ ext.list = <<>>
         /\ ~ext.self

\* mentionSelf() has answered true for a text that names the current user.
C12_Witness ==
  /\ ext.name = "mentionSelf"
  /\ ext.pc = "resolved"
  /\ ext.self
  /\ ~payload[ext.h][1].hasMentionIdList
  /\ ext.names # <<>>

(***************************************************************************)
(* Claims about the extractors (specification SpecExtract).                *)
(***************************************************************************)
\* No contact has been readied besides the sender, which ready() readied.
NoContactReadied == \A k \in ContactIds : contactReady[k] => k = payload[ext.h][1].fromId

\* C13: toContact() on a ready message that is not a contact card fails with
\* the type-mismatch error and makes no backend call, neither messageContact
\* nor a contact fetch; on a contact card its first call is messageContact
\* of the message's id, and what it returns is a ready contact handle of the
\* id the puppet answered.
C13_ToContact ==
  (ext.name = "toContact" /\ isReady(ext.h)) =>
    /\ type(ext.h).val # "Contact" =>
         /\ ext.pc = "rejected"
         /\ ext.err = "message not a ShareCard"
         /\ ext.fetches = <<>>
         /\ NoContactReadied
    /\ type(ext.h).val = "Contact" =>
         /\ ext.fetches # <<>>
         /\ ext.fetches[1] = [op |-> "messageContact", id |-> hid[ext.h]]
         /\ ext.pc = "resolved" =>
              /\ ext.answer # <<>>
              /\ ext.val = <<"Contact", ext.answer[1]>>
              /\ ext.answer[1] \in ContactIds
              /\ contactReady[ext.answer[1]]

\* toContact() has returned the contact of the card, fetched and readied.
C13_Witness ==
  /\ ext.name = "toContact"
  /\ ext.pc = "resolved"
  /\ ext.val = <<"Contact", "c2">>
  /\ payload[ext.h][1].fromId = "c1"
  /\ Len(ext.fetches) = 2
  /\ contactReady["c2"]

\* The one type each extractor is documented to accept.
ExpectedKind ==
  [name \in Extractors |->
     CASE name = "toFileBox"     -> "Attachment"
       [] name = "toImage"       -> "Image"
       [] name = "toContact"     -> "Contact"
       [] name = "toUrlLink"     -> "Url"
       [] name = "toMiniProgram" -> "MiniProgram"
       [] name = "toLocation"    -> "Location"]

\* The puppet call each payload extractor is documented to make.
DocumentedFetch ==
  [name \in {"toUrlLink", "toMiniProgram", "toLocation"} |->
     CASE name = "toUrlLink"     -> "messageUrl"
       [] name = "toMiniProgram" -> "messageMiniProgram"
       [] name = "toLocation"    -> "messageLocation"]

\* The extractor has refused the type before any backend call.
RefusedUnfetched == ext.pc = "rejected" /\ ext.err = mismatch(ext.name) /\ ext.fetches = <<>>

\* The extractor has made the one fetch f of the message's id, and what it
\* returned is the value the puppet answered.
FetchedOnce(f) ==
  /\ ext.fetches = <<[op |-> f, id |-> hid[ext.h]]>>
  /\ ext.pc = "resolved" => ext.answer # <<>> /\ ext.val[2] = ext.answer[1]

\* C14 (as stated): each of toFileBox, toImage, toUrlLink, toMiniProgram and
\* toLocation fails with its type-mismatch error, before any backend call,
\* for every type but the one it expects, and for that type makes exactly
\* one fetch of the message's id and returns the puppet's value.
C14_ExtractorsValidate ==
  (ext.name \in Extractors \ {"toContact"} /\ isReady(ext.h)) =>
    /\ type(ext.h).val # ExpectedKind[ext.name] => RefusedUnfetched
    /\ type(ext.h).val = ExpectedKind[ext.name] =>
         /\ Len(ext.fetches) = 1
         /\ ext.fetches[1].id = hid[ext.h]
         /\ ext.pc = "resolved" => ext.answer # <<>> /\ ext.val[2] = ext.answer[1]

\* C14 (amended): toUrlLink, toMiniProgram and toLocation do as stated, with
\* messageUrl, messageMiniProgram and messageLocation; toFileBox refuses the
\* Text type only and makes its one messageFile fetch for every other type;
\* toImage refuses every type but Image and for an Image makes no backend
\* call: it returns at once an Image of the message's id.
C14_ExtractorsValidateEach ==
  (ext.name \in Extractors \ {"toContact"} /\ isReady(ext.h)) =>
    /\ ext.name \in DOMAIN DocumentedFetch =>
         /\ type(ext.h).val # ExpectedKind[ext.name] => RefusedUnfetched
         /\ type(ext.h).val = ExpectedKind[ext.name] => FetchedOnce(DocumentedFetch[ext.name])
    /\ ext.name = "toFileBox" =>
         /\ type(ext.h).val = "Text" => RefusedUnfetched
         /\ type(ext.h).val # "Text" => FetchedOnce("messageFile")
    /\ ext.name = "toImage" =>
         /\ type(ext.h).val # "Image" => RefusedUnfetched
         /\ type(ext.h).val = "Image" =>
              ext.pc = "resolved" /\ ext.fetches = <<>> /\ ext.val = <<"Image", hid[ext.h]>>

\* toUrlLink() of a url-link message has returned what messageUrl answered.
C14_Witness ==
  /\ ext.name = "toUrlLink"
  /\ ext.pc = "resolved"
  /\ ext.fetches = <<[op |-> "messageUrl", id |-> "m1"]>>
  /\ ext.answer = <<"v2">>
  /\ ext.val = <<"UrlLink", "v2">>

(***************************************************************************)
(* Claims about the join of findAll (specification SpecFind).              *)
(***************************************************************************)
\* C15: in findAll the ready() of every found handle is started (its fetch
\* is issued) before any is joined; the rejection of one cancels and skips
\* no other; findAll returns only when every one of them has resolved or
\* rejected; and nothing is filtered out before that join.
C15_FindAllJoinsAll ==
  find.search = "ok" =>
    /\ \A i \in 1 .. Len(find.list) :
         /\ calls[find.callOf[i]].pc # "free"
         /\ calls[find.callOf[i]].h = find.list[i]
         /\ fetchCount[find.list[i]] = 1
    /\ find.pc = "join" => find.ret = <<>>
    /\ FindAllReturned =>
         /\ \A i \in 1 .. Len(find.list) : calls[find.callOf[i]].pc \in {"resolved", "rejected"}
         /\ \A i \in 1 .. Len(find.list) :
              calls[find.callOf[i]].pc = "resolved" =>
                \E j \in 1 .. Len(find.ret) : find.ret[j] = find.list[i]

\* One ready() has rejected and been caught while another is still awaiting
\* its fetch, and findAll is still joining.
C15_Witness ==
  /\ find.pc = "join"
  /\ Len(find.list) = 2
  /\ calls[find.callOf[1]].pc = "rejected"
  /\ 1 \in find.caught
  /\ calls[find.callOf[2]].pc = "fetch"

(***************************************************************************)
(* Claims about a rejected fetch (specification Spec).                     *)
(***************************************************************************)
\* C16: when the messagePayload fetch of a ready() rejects, that call is
\* rejected for good, the payload of the handle is left as it was (an
\* unready handle stays unready and its accessors still throw), no room or
\* contact is readied by the step; and a ready() called on a handle that is
\* unready, after a rejection too, issues a fetch.
C16_FetchRejection ==
  [][\A c \in Calls :
       /\ (calls[c].pc = "fetch" /\ calls'[c].pc = "rejected") =>
            /\ payload' = payload
            /\ roomReady' = roomReady
            /\ contactReady' = contactReady
            /\ \A h \in Handles :
                 (calls[c].h = h /\ ~isReady(h)) =>
                   /\ ~isReady(h)'
                   /\ \A i \in 1 .. 6 : Accessors(h)'[i].err # ""
       /\ calls[c].pc = "rejected" => calls'[c] = calls[c]
       /\ \A h \in Handles :
            (calls[c].pc = "free" /\ calls'[c].pc # "free" /\ calls'[c].h = h /\ ~isReady(h)) =>
              /\ calls'[c].pc = "fetch"
              /\ fetchCount'[h] = fetchCount[h] + 1
    ]_vars

\* The fetch of one ready() was rejected, the handle is still unready, and
\* another ready() on it has issued the second fetch.
C16_Witness ==
  \E c, d \in Calls :
    /\ c # d
    /\ calls[c].pc = "rejected"
    /\ calls[d].pc = "fetch"
    /\ calls[c].h = calls[d].h
    /\ ~isReady(calls[c].h)
    /\ fetchCount[calls[c].h] = 2

(***************************************************************************)
(* Claims about the heuristic mention path (specification SpecMention).    *)
(***************************************************************************)
\* The separator-delimited fragments of text t that contain '@'.
AtFragments(t) ==
  LET hasAt(x) == includes(x, "@")
  IN SelectSeq(split(t, Sep), hasAt)

\* The non-empty '@'-separated tokens after the first '@' of a fragment.
TokensAfterFirstAt(frag) ==
  LET nonEmpty(x) == x # <<>>
  IN SelectSeq(split(SubSeq(frag, indexOf(frag, "@") + 1, Len(frag)), "@"), nonEmpty)

\* tk @ ... @ tn, of the tokens tok.
RECURSIVE JoinFrom(_, _)
JoinFrom(tok, k) ==
  IF k = Len(tok) THEN tok[k] ELSE tok[k] \o <<"@">> \o JoinFrom(tok, k + 1)

\* The candidates of a fragment: tn, t(n-1)@tn, ..., t1@...@tn.
Candidates(frag) ==
  LET tok == TokensAfterFirstAt(frag)
  IN [k \in 1 .. Len(tok) |-> JoinFrom(tok, Len(tok) - k + 1)]

\* The candidates of every fragment of text t, in order.
CandidatesOf(t) ==
  LET frags == AtFragments(t)
  IN flatten([k \in 1 .. Len(frags) |-> Candidates(frags[k])])

\* The members whose name is a candidate, candidate by candidate.
MembersNamed(names) ==
  flatten([k \in 1 .. Len(names) |->
             LET named(m) == MemberName[m] = names[k] IN SelectSeq(MemberOrder, named)])

\* C17: for a text message in a room with no structured mention list, the
\* candidate names are, fragment by fragment, tn, t(n-1)@tn, ..., t1@...@tn
\* of the tokens after the fragment's first '@', and mentionList() resolves
\* with the members matching each candidate, in that order, duplicates kept.
C17_HeuristicCandidates ==
  (/\ MentionAsked
   /\ isReady(ext.h)
   /\ payload[ext.h][1].type = "Text"
   /\ payload[ext.h][1].roomId # None
   /\ ~payload[ext.h][1].hasMentionIdList) =>
    /\ ext.names = CandidatesOf(payload[ext.h][1].text)
    /\ ext.pc \in {"listed", "resolved"} =>
         ext.list = MembersNamed(CandidatesOf(payload[ext.h][1].text))

====
